---- MODULE Spec2Model ----
(***************************************************************************)
(* Boat (src/client/components/BoatCustomziator/Sketch/Boat/index.ts):     *)
(* a THREE.Group assembled from a loaded glTF scene graph.  The constructor *)
(* prepares the textures, unwraps every Mesh of the scene under the boat    *)
(* (addParts), normalises the boat's scale, collects the placeholders       *)
(* (addPlaceholders) and creates the CustomizationManager.  Afterwards the  *)
(* boat answers part queries and can be disposed.                           *)
(*                                                                         *)
(* Conventions of the model                                                *)
(*  - a name is a sequence of one-character strings, so that a RegExp can   *)
(*    be matched against it;                                                *)
(*  - an opacity is counted in hundredths (100 is the number 1);            *)
(*  - coordinates are integers, all even, so that a box centre is exact;    *)
(*  - a scale factor s is kept as the fraction sqNum/sqDen = s*s, because   *)
(*    2 / Math.hypot(size) is irrational in general; inf marks Infinity.    *)
(***************************************************************************)
EXTENDS Integers, Sequences, FiniteSets, TLC

\* ------------------------------------------------------------------ bounds
\* Most nodes below the scene root, in the scene graphs of Spec.
MaxNodes == 3
\* Most meshes below the scene root, in the flat scene graphs of SpecQuery.
MaxParts == 3
\* Longest list of search options handed to getMatchingParts.
MaxCriteria == 2
\* Most calls of dispose() on one boat.
MaxDispose == 2

\* ------------------------------------------------------------------ names
Hull == <<"H", "u", "l", "l">>
Mast == <<"M", "a", "s", "t">>
Glass == <<"G", "l", "a", "s", "s">>
Deck == <<"D", "e", "c", "k">>
Sail1 == <<"S", "a", "i", "l", "1">>
Sail2 == <<"S", "a", "i", "l", "2">>
Seat == <<"S", "e", "a", "t">>
Spare == <<"S", "p", "a", "r", "e">>
Rig == <<"R", "i", "g">>
SceneName == <<"S", "c", "e", "n", "e">>
Sail == <<"S", "a", "i", "l">>

\* ------------------------------------------------------------- identities
\* gltf.scene, the root the two traversals start from.
Root == 1
\* The material the asset gives its meshes (shared by all of them).
AssetMaterial == 0
\* "No geometry": the geometry slot of a node that is not a mesh.
NoGeometry == 0
\* The number 1 as an opacity, in hundredths.
OpacityOne == 100

Zero3 == <<0, 0, 0>>

\* The three texture slots of BoatTextures.
TextureSlots == {"map", "occlusionRoughnessMetallicMap", "metallnessMapPath"}

\* --------------------------------------------------------------- the input
\* customizationConfig.transparentParts: part name -> opacity.
TransparentParts == (Hull :> 50) @@ (Glass :> 0) @@ (Deck :> OpacityOne)

\* customizationConfig.customization: placeholder key -> its description.
Customization ==
    (Seat :> [placeholderLabel |-> "Seat label"])
        @@ (Rig :> [placeholderLabel |-> "Rig label"])
        @@ (Hull :> [placeholderLabel |-> "Hull label"])

\* The bounding boxes of the asset's geometries (geometry.boundingBox).
\* Geometry 3 is a single point: a mesh of no extent.
GeometryBox(g) ==
    CASE g = 1 -> [min |-> <<-2, 0, 0>>, max |-> <<2, 2, 4>>]
      [] g = 2 -> [min |-> <<0, 0, 0>>, max |-> <<2, 2, 0>>]
      [] OTHER -> [min |-> Zero3, max |-> Zero3]

\* The nodes a scene graph of Spec is built from. Two nodes of the same kind
\* share their name, and two meshes of the same geometry share the geometry
\* instance (GLTFLoader clones an instanced mesh and keeps its geometry).
MeshKinds ==
    { [type |-> "Mesh", name |-> Hull, geometry |-> 1, position |-> Zero3],
      [type |-> "Mesh", name |-> Mast, geometry |-> 1, position |-> <<0, 4, 0>>],
      [type |-> "Mesh", name |-> Glass, geometry |-> 2, position |-> <<2, 0, 0>>],
      [type |-> "Mesh", name |-> Deck, geometry |-> 3, position |-> Zero3] }

TransformKinds ==
    { [type |-> "Object3D", name |-> Seat, geometry |-> NoGeometry,
       position |-> <<2, 2, 0>>],
      [type |-> "Object3D", name |-> Spare, geometry |-> NoGeometry,
       position |-> <<0, 2, 2>>] }

GroupKinds ==
    { [type |-> "Group", name |-> Rig, geometry |-> NoGeometry,
       position |-> <<0, 2, 0>>] }

NodeKinds == MeshKinds \cup TransformKinds \cup GroupKinds

\* The meshes of the flat scene graphs of SpecQuery.
QueryKinds ==
    { [type |-> "Mesh", name |-> Hull, geometry |-> 1, position |-> Zero3],
      [type |-> "Mesh", name |-> Sail1, geometry |-> 2, position |-> Zero3],
      [type |-> "Mesh", name |-> Sail2, geometry |-> 2, position |-> Zero3],
      [type |-> "Mesh", name |-> Mast, geometry |-> 3, position |-> Zero3] }

\* gltf.scene is a THREE.Group.
RootKind ==
    [type |-> "Group", name |-> SceneName, geometry |-> NoGeometry,
     position |-> Zero3]

\* The scene graphs of n nodes below the root: node i > Root hangs under an
\* earlier node, flat graphs under the root, and the children of a node are in
\* the order of their numbers.
Scenes(kinds, n, flat) ==
    { [n |-> n + 1, parent |-> p, kind |-> (Root :> RootKind) @@ k] :
        p \in { q \in [2..(n + 1) -> 1..n] :
                  \A i \in 2..(n + 1) : q[i] < i /\ (flat => q[i] = Root) },
        k \in [2..(n + 1) -> kinds] }

RECURSIVE ChildrenFrom(_, _, _)
ChildrenFrom(g, node, i) ==
    IF i > g.n THEN <<>>
    ELSE (IF g.parent[i] = node THEN <<i>> ELSE <<>>)
            \o ChildrenFrom(g, node, i + 1)

\* object.children of every node of the loaded scene graph.
InitialChildren(g) == [node \in 1..g.n |-> ChildrenFrom(g, node, 2)]

VARIABLES
    gltf,            \* the loaded scene graph as the loader left it
    children,        \* object.children of every scene node, as it is now
    boatChildren,    \* this.children
    texFlags,        \* flipY and generateMipmaps of each texture
    material,        \* object.material of every scene node
    materials,       \* the materials constructed so far (a material's id is its index)
    parts,           \* this.parts
    placeholders,    \* this.placeholders
    boundingBox,     \* this.boundingBox
    size,            \* this.size
    center,          \* this.center
    scale,           \* this.scale
    customizationManager,   \* this.customizationManager
    pc,              \* the statement of the constructor to run next
    log,             \* history: the statements run so far
    released,        \* how often each resource was disposed
    disposeCalls,    \* calls of dispose() so far
    result           \* what the last query returned

vars ==
    << gltf, children, boatChildren, texFlags, material, materials, parts,
       placeholders, boundingBox, size, center, scale, customizationManager,
       pc, log, released, disposeCalls, result >>

\* ------------------------------------------------------------ vectors, boxes
Add3(a, b) == <<a[1] + b[1], a[2] + b[2], a[3] + b[3]>>
Sub3(a, b) == <<a[1] - b[1], a[2] - b[2], a[3] - b[3]>>
Min(a, b) == IF a <= b THEN a ELSE b
Max(a, b) == IF a >= b THEN a ELSE b
Min3(a, b) == <<Min(a[1], b[1]), Min(a[2], b[2]), Min(a[3], b[3])>>
Max3(a, b) == <<Max(a[1], b[1]), Max(a[2], b[2]), Max(a[3], b[3])>>

\* new THREE.Group(): scale (1, 1, 1).
IdentityScale == [inf |-> FALSE, sqNum |-> 1, sqDen |-> 1]

\* new THREE.Box3(): the empty box (min and max do not count while empty). by
\* is the scale of the object the box is measured on: setFromObject measures
\* in world space.
EmptyBox ==
    [defined |-> TRUE, empty |-> TRUE, min |-> Zero3, max |-> Zero3,
     by |-> IdentityScale]
\* A field of the boat that no statement has assigned yet.
Undefined ==
    [defined |-> FALSE, empty |-> TRUE, min |-> Zero3, max |-> Zero3,
     by |-> IdentityScale]

\* Box3.union.
Union(a, b) ==
    IF b.empty THEN a
    ELSE IF a.empty THEN [a EXCEPT !.empty = FALSE, !.min = b.min, !.max = b.max]
    ELSE [a EXCEPT !.min = Min3(a.min, b.min), !.max = Max3(a.max, b.max)]

\* Box3.getSize: the zero vector for an empty box.
GetSize(box) == IF box.empty THEN Zero3 ELSE Sub3(box.max, box.min)

\* Box3.getCenter: the zero vector for an empty box.
GetCenter(box) ==
    IF box.empty THEN Zero3
    ELSE LET s == Add3(box.min, box.max) IN <<s[1] \div 2, s[2] \div 2, s[3] \div 2>>

\* Math.hypot(x, y, z), squared.
HypotSq(v) == v[1] * v[1] + v[2] * v[2] + v[3] * v[3]

\* ------------------------------------------------------------ the scene graph
\* Object3D.traverse: the callback sees the node, then each child's subtree, in
\* the order of object.children. The result is the order of the calls.
RECURSIVE Traverse(_, _)
RECURSIVE TraverseChildren(_, _)
\* Faulty variant: the callback runs after the children (post-order).
TraversePostOrder(ch, node) == TraverseChildren(ch, ch[node]) \o <<node>>
Traverse(ch, node) == <<node>> \o TraverseChildren(ch, ch[node])
TraverseChildren(ch, cs) ==
    IF cs = <<>> THEN <<>>
    ELSE Traverse(ch, Head(cs)) \o TraverseChildren(ch, Tail(cs))

\* Array.filter, on a sequence of scene nodes.
RECURSIVE Without(_, _)
Without(s, x) ==
    IF s = <<>> THEN <<>>
    ELSE (IF Head(s) = x THEN <<>> ELSE <<Head(s)>>) \o Without(Tail(s), x)

\* Object3D.add(object) on the boat: the object leaves its parent's children,
\* with its own subtree, and becomes the boat's last child.
AddPart(g, object) ==
    [children |-> [node \in DOMAIN g.children |-> Without(g.children[node], object)],
     boatChildren |->
        Append(SelectSeq(g.boatChildren,
                         LAMBDA c : ~(c.kind = "part" /\ c.id = object)),
               [kind |-> "part", id |-> object])]

\* this.add(...objects): one add per argument, in order.
RECURSIVE AddParts(_, _)
AddParts(g, objects) ==
    IF objects = <<>> THEN g
    ELSE AddParts(AddPart(g, Head(objects)), Tail(objects))

\* ------------------------------------------------------------------ addParts
\* Faulty variant: every node but a Group is taken for a part.
IsPartNotGroup(type) == type # "Group"
\* object.type == "Mesh"
IsPart(type) == type = "Mesh"

\* map[key], as a sequence: <<>> is undefined.
Lookup(map, key) == IF key \in DOMAIN map THEN <<map[key]>> ELSE <<>>

\* value || 1: undefined and 0 are falsy.
OrOne(value) == IF value = <<>> \/ value[1] = 0 THEN OpacityOne ELSE value[1]

\* The opacity option: transparentParts[object.name] || 1.
Opacity(name) == OrOne(Lookup(TransparentParts, name))

\* The transparent option: (... || 1) !== undefined && (... || 1) < 1.
Transparent(name) ==
    LET v == OrOne(Lookup(TransparentParts, name)) IN <<v>> # <<>> /\ v < OpacityOne

\* new MeshStandardMaterial({...}); scalars in tenths.
NewMaterial(name) ==
    [map |-> "map",
     roughnessMap |-> "occlusionRoughnessMetallicMap",
     metalnessMap |-> "metallnessMapPath",
     opacity |-> Opacity(name),
     transparent |-> Transparent(name),
     envMapIntensity |-> 15,
     metalness |-> 15,
     color |-> <<13, 13, 13>>]

\* Faulty variant: the material is constructed once and reused by every part.
ConstructOnce(mats, m) == IF mats = <<>> THEN <<m>> ELSE mats
\* The materials after one more is constructed; the new one is the last.
Construct(mats, m) == Append(mats, m)

\* The callback of the first traversal, on one node. st holds what it writes:
\* the materials, each node's material slot, and this.parts.
PartCallback(object, st) ==
    IF IsPart(gltf.kind[object].type)
    THEN LET mats == Construct(st.materials, NewMaterial(gltf.kind[object].name))
         IN [materials |-> mats,
             material |-> [st.material EXCEPT ![object] = Len(mats)],
             parts |-> Append(st.parts, object)]
    ELSE st

RECURSIVE ForEachPartCallback(_, _)
ForEachPartCallback(order, st) ==
    IF order = <<>> THEN st
    ELSE ForEachPartCallback(Tail(order), PartCallback(Head(order), st))

\* Box3.expandByObject: the node's geometry box in world space (nodes are
\* translated only), then its children's.
RECURSIVE ExpandByObject(_, _, _, _)
RECURSIVE ExpandByChildren(_, _, _, _)
ExpandByObject(ch, node, origin, box) ==
    LET k == gltf.kind[node]
        world == Add3(origin, k.position)
        own ==
            IF k.geometry = NoGeometry THEN box
            ELSE Union(box, [empty |-> FALSE,
                             min |-> Add3(GeometryBox(k.geometry).min, world),
                             max |-> Add3(GeometryBox(k.geometry).max, world)])
    IN ExpandByChildren(ch, ch[node], world, own)
ExpandByChildren(ch, cs, origin, box) ==
    IF cs = <<>> THEN box
    ELSE ExpandByChildren(ch, Tail(cs), origin,
                          ExpandByObject(ch, Head(cs), origin, box))

\* new THREE.Box3().setFromObject(this): the boat has no geometry of its own;
\* its children are measured under the boat's scale at that moment.
SetFromObject(ch, bc, s) ==
    [ExpandByChildren(ch, [i \in 1..Len(bc) |-> bc[i].id], Zero3, EmptyBox)
        EXCEPT !.by = s]

\* Faulty variant: 1 / Math.hypot(...), the radius taken for the diameter.
ScaleForRadius(v) ==
    IF HypotSq(v) = 0 THEN [inf |-> TRUE, sqNum |-> 1, sqDen |-> 0]
    ELSE [inf |-> FALSE, sqNum |-> 1, sqDen |-> HypotSq(v)]
\* 2 / Math.hypot(...size.toArray()): 2 / 0 is Infinity.
ScaleFor(v) ==
    IF HypotSq(v) = 0 THEN [inf |-> TRUE, sqNum |-> 4, sqDen |-> 0]
    ELSE [inf |-> FALSE, sqNum |-> 4, sqDen |-> HypotSq(v)]

\* ------------------------------------------------------------ addPlaceholders
\* object.type == "Object3D"
IsPlaceholder(type) == type = "Object3D"

\* new Placeholder(name, label).setPosition(position)
NewPlaceholder(name, label, position) ==
    [key |-> name, label |-> label, position |-> position]

\* The callback of the second traversal, on one node.
PlaceholderCallback(object, phs) ==
    IF IsPlaceholder(gltf.kind[object].type)
    THEN LET config == Lookup(Customization, gltf.kind[object].name)
         IN IF config = <<>> THEN phs
            ELSE Append(phs, NewPlaceholder(gltf.kind[object].name,
                                            config[1].placeholderLabel,
                                            gltf.kind[object].position))
    ELSE phs

RECURSIVE ForEachPlaceholderCallback(_, _)
ForEachPlaceholderCallback(order, phs) ==
    IF order = <<>> THEN phs
    ELSE ForEachPlaceholderCallback(Tail(order), PlaceholderCallback(Head(order), phs))

\* ------------------------------------------------------------ the constructor
\* Faulty variant: addPlaceholders is chained before addParts.
AfterPlaceholdersFirst(p) ==
    CASE p = "prepareTextures" -> "addPlaceholders"
      [] p = "addPlaceholders" -> "collectParts"
      [] p = "collectParts" -> "computeBounds"
      [] p = "computeBounds" -> "applyScale"
      [] p = "applyScale" -> "createManager"
      [] OTHER -> "ready"
\* The statement that follows statement p of the constructor.
After(p) ==
    CASE p = "prepareTextures" -> "collectParts"
      [] p = "collectParts" -> "computeBounds"
      [] p = "computeBounds" -> "applyScale"
      [] p = "applyScale" -> "addPlaceholders"
      [] p = "addPlaceholders" -> "createManager"
      [] OTHER -> "ready"

NoResult ==
    [op |-> "none", name |-> <<>>, options |-> <<>>, before |-> <<>>,
     found |-> FALSE, part |-> 0, list |-> <<>>]

\* The state as super() and the field initialisers leave it, for scene graph g.
InitFor(g) ==
    /\ gltf = g
    /\ children = InitialChildren(g)
    /\ boatChildren = <<>>
    /\ texFlags = [t \in TextureSlots |-> [flipY |-> TRUE, generateMipmaps |-> TRUE]]
    /\ material = [node \in 1..g.n |-> AssetMaterial]
    /\ materials = <<>>
    /\ parts = <<>>
    /\ placeholders = <<>>
    /\ boundingBox = Undefined
    /\ size = Zero3
    /\ center = Zero3
    /\ scale = IdentityScale
    /\ customizationManager = [created |-> FALSE, parts |-> <<>>, placeholders |-> <<>>]
    /\ pc = "prepareTextures"
    /\ log = <<>>
    /\ released = <<>>
    /\ disposeCalls = 0
    /\ result = NoResult

Init == \E n \in 0..MaxNodes : \E g \in Scenes(NodeKinds, n, FALSE) : InitFor(g)

InitQuery == \E n \in 0..MaxParts : \E g \in Scenes(QueryKinds, n, TRUE) : InitFor(g)

\* One statement of the constructor is done.
Step(p) == pc = p /\ pc' = After(p) /\ log' = Append(log, p)

\* prepareTextures()
PrepareTextures ==
    /\ Step("prepareTextures")
    /\ texFlags' = [t \in TextureSlots |-> [flipY |-> FALSE, generateMipmaps |-> FALSE]]
    /\ UNCHANGED << gltf, children, boatChildren, material, materials, parts,
                    placeholders, boundingBox, size, center, scale,
                    customizationManager, released, disposeCalls, result >>

\* addParts, to this.add(...this.parts): the first traversal, then the unwrapping.
CollectParts ==
    /\ Step("collectParts")
    /\ LET st == ForEachPartCallback(
                    Traverse(children, Root),
                    [materials |-> materials, material |-> material, parts |-> <<>>])
           g == AddParts([children |-> children, boatChildren |-> boatChildren],
                         st.parts)
       IN /\ materials' = st.materials
          /\ material' = st.material
          /\ parts' = st.parts
          /\ children' = g.children
          /\ boatChildren' = g.boatChildren
    /\ UNCHANGED << gltf, texFlags, placeholders, boundingBox, size, center, scale,
                    customizationManager, released, disposeCalls, result >>

\* addParts: this.boundingBox, this.size, this.center.
ComputeBounds ==
    /\ Step("computeBounds")
    /\ LET box == SetFromObject(children, boatChildren, scale)
       IN /\ boundingBox' = box
          /\ size' = GetSize(box)
          /\ center' = GetCenter(box)
    /\ UNCHANGED << gltf, children, boatChildren, texFlags, material, materials,
                    parts, placeholders, scale, customizationManager, released,
                    disposeCalls, result >>

\* addParts: this.scale.setScalar(scale).
ApplyScale ==
    /\ Step("applyScale")
    /\ scale' = ScaleFor(size)
    /\ UNCHANGED << gltf, children, boatChildren, texFlags, material, materials,
                    parts, placeholders, boundingBox, size, center,
                    customizationManager, released, disposeCalls, result >>

\* addPlaceholders: the second traversal, then this.add(...this.placeholders).
AddPlaceholders ==
    /\ Step("addPlaceholders")
    /\ LET phs == ForEachPlaceholderCallback(Traverse(children, Root), placeholders)
       IN /\ placeholders' = phs
          /\ boatChildren' =
                IF Len(phs) # 0
                THEN boatChildren
                        \o [i \in 1..Len(phs) |-> [kind |-> "placeholder", id |-> i]]
                ELSE boatChildren
    /\ UNCHANGED << gltf, children, texFlags, material, materials, parts,
                    boundingBox, size, center, scale, customizationManager,
                    released, disposeCalls, result >>

\* new CustomizationManager(this, this.customizationConfig): the manager sees
\* the boat as it is at that moment.
CreateManager ==
    /\ Step("createManager")
    /\ customizationManager' =
            [created |-> TRUE, parts |-> parts, placeholders |-> placeholders]
    /\ UNCHANGED << gltf, children, boatChildren, texFlags, material, materials,
                    parts, placeholders, boundingBox, size, center, scale,
                    released, disposeCalls, result >>

\* -------------------------------------------------------------------- queries
\* A search option: a string, or a RegExp of literal characters that may be
\* anchored at the start (^) and at the end ($).
Str(text) == [string |-> TRUE, text |-> text, fromStart |-> FALSE, toEnd |-> FALSE]
RegExp(text, fromStart, toEnd) ==
    [string |-> FALSE, text |-> text, fromStart |-> fromStart, toEnd |-> toEnd]

\* "Hull", "Sail", /^Sail/, /l/, /1$/
SearchOptions ==
    { Str(Hull), Str(Sail), RegExp(Sail, TRUE, FALSE), RegExp(<<"l">>, FALSE, FALSE),
      RegExp(<<"1">>, FALSE, TRUE) }

SearchOptionLists == UNION { [1..k -> SearchOptions] : k \in 0..MaxCriteria }

\* The names getPartByName is asked for.
QueryNames == {Hull, Sail1, Sail2, Mast, Sail}

\* !!name.match(regExp): the pattern occurs in the name, where its anchors allow.
Match(name, re) ==
    \E start \in 1..(Len(name) - Len(re.text) + 1) :
        /\ SubSeq(name, start, start + Len(re.text) - 1) = re.text
        /\ re.fromStart => start = 1
        /\ re.toEnd => start + Len(re.text) - 1 = Len(name)

\* typeof option == "string" ? part.name == option : !!part.name.match(option)
OptionMatches(option, name) ==
    IF option.string THEN name = option.text ELSE Match(name, option)

\* Faulty variant: searchOptions.every(...) instead of some.
RECURSIVE EveryOption(_, _)
EveryOption(options, name) ==
    IF options = <<>> THEN TRUE
    ELSE OptionMatches(Head(options), name) /\ EveryOption(Tail(options), name)

\* searchOptions.some(...)
RECURSIVE SomeOption(_, _)
SomeOption(options, name) ==
    IF options = <<>> THEN FALSE
    ELSE OptionMatches(Head(options), name) \/ SomeOption(Tail(options), name)

\* this.parts.filter(...)
RECURSIVE FilterParts(_, _)
FilterParts(ps, options) ==
    IF ps = <<>> THEN <<>>
    ELSE (IF SomeOption(options, gltf.kind[Head(ps)].name) THEN <<Head(ps)>> ELSE <<>>)
            \o FilterParts(Tail(ps), options)

\* Faulty variant: the last part of that name instead of the first.
RECURSIVE FindLastPart(_, _)
FindLastPart(ps, partName) ==
    IF ps = <<>> THEN <<>>
    ELSE IF gltf.kind[ps[Len(ps)]].name = partName THEN <<ps[Len(ps)]>>
    ELSE FindLastPart(SubSeq(ps, 1, Len(ps) - 1), partName)

\* this.parts.find(...): <<>> is undefined.
RECURSIVE FindPart(_, _)
FindPart(ps, partName) ==
    IF ps = <<>> THEN <<>>
    ELSE IF gltf.kind[Head(ps)].name = partName THEN <<Head(ps)>>
    ELSE FindPart(Tail(ps), partName)

\* getPartByName(partName). Calls are synchronous: the caller has taken the
\* result of the call before.
GetPartByName(partName) ==
    /\ pc = "ready"
    /\ result = NoResult
    /\ LET hit == FindPart(parts, partName)
       IN result' =
            [op |-> "getPartByName", name |-> partName, options |-> <<>>,
             before |-> parts, found |-> hit # <<>>,
             part |-> IF hit # <<>> THEN hit[1] ELSE 0, list |-> <<>>]
    /\ UNCHANGED << gltf, children, boatChildren, texFlags, material, materials,
                    parts, placeholders, boundingBox, size, center, scale,
                    customizationManager, pc, log, released, disposeCalls >>

\* getMatchingParts(searchOptions)
GetMatchingParts(searchOptions) ==
    /\ pc = "ready"
    /\ result = NoResult
    /\ result' =
            [op |-> "getMatchingParts", name |-> <<>>, options |-> searchOptions,
             before |-> parts, found |-> FALSE, part |-> 0,
             list |-> FilterParts(parts, searchOptions)]
    /\ UNCHANGED << gltf, children, boatChildren, texFlags, material, materials,
                    parts, placeholders, boundingBox, size, center, scale,
                    customizationManager, pc, log, released, disposeCalls >>

\* -------------------------------------------------------------------- dispose
\* forEachPart: part.geometry.dispose(), then part.material.dispose().
RECURSIVE DisposeParts(_)
DisposeParts(ps) ==
    IF ps = <<>> THEN <<>>
    ELSE << [kind |-> "geometry", id |-> gltf.kind[Head(ps)].geometry],
            [kind |-> "material", id |-> material[Head(ps)]] >>
            \o DisposeParts(Tail(ps))

\* forEachPlaceholder: placeholder.dispose().
DisposePlaceholders(phs) ==
    [i \in 1..Len(phs) |-> [kind |-> "placeholder", id |-> i]]

\* dispose()
Dispose ==
    /\ pc = "ready"
    /\ disposeCalls < MaxDispose
    /\ disposeCalls' = disposeCalls + 1
    /\ released' = released \o DisposeParts(parts) \o DisposePlaceholders(placeholders)
    /\ UNCHANGED << gltf, children, boatChildren, texFlags, material, materials,
                    parts, placeholders, boundingBox, size, center, scale,
                    customizationManager, pc, log, result >>

Constructor ==
    \/ PrepareTextures
    \/ CollectParts
    \/ ComputeBounds
    \/ ApplyScale
    \/ AddPlaceholders
    \/ CreateManager

Next == Constructor \/ Dispose

Spec == Init /\ [][Next]_vars

\* The caller takes the result of a query.
Return ==
    /\ result # NoResult
    /\ result' = NoResult
    /\ UNCHANGED << gltf, children, boatChildren, texFlags, material, materials,
                    parts, placeholders, boundingBox, size, center, scale,
                    customizationManager, pc, log, released, disposeCalls >>

NextQuery ==
    \/ Constructor
    \/ Return
    \/ \E partName \in QueryNames : GetPartByName(partName)
    \/ \E searchOptions \in SearchOptionLists : GetMatchingParts(searchOptions)

SpecQuery == InitQuery /\ [][NextQuery]_vars

\* ------------------------------------------------------- what the claims read
\* Statement p of the constructor has run.
Done(p) == \E i \in 1..Len(log) : log[i] = p

Range(s) == { s[i] : i \in 1..Len(s) }

\* The nodes of the loaded scene graph of a given type.
NodesOfType(type) == { node \in 1..gltf.n : gltf.kind[node].type = type }

\* The path from the root to a node, in the loaded scene graph.
RECURSIVE PathTo(_)
PathTo(node) ==
    IF node = Root THEN <<Root>> ELSE Append(PathTo(gltf.parent[node]), node)

\* Depth-first order of the loaded scene graph: an ancestor comes before its
\* descendants, and otherwise the order is that of the two children where the
\* paths part (children are in the order of their numbers).
Precedes(a, b) ==
    LET pa == PathTo(a)
        pb == PathTo(b)
    IN /\ a # b
       /\ \/ Len(pa) < Len(pb) /\ SubSeq(pb, 1, Len(pa)) = pa
          \/ \E k \in 1..Min(Len(pa), Len(pb)) :
                /\ SubSeq(pa, 1, k - 1) = SubSeq(pb, 1, k - 1)
                /\ pa[k] < pb[k]

\* s is in depth-first order, without repetition.
InTraversalOrder(s) == \A i, j \in 1..Len(s) : i < j => Precedes(s[i], s[j])

PartName(i) == gltf.kind[parts[i]].name

Count(kind, id) ==
    Cardinality({ i \in 1..Len(released) : released[i] = [kind |-> kind, id |-> id] })

\* ------------------------------------------------------------------------ C1
\* C1: after construction, parts is exactly the sequence of the scene graph's
\* nodes of type "Mesh", nested ones included, in depth-first traversal order:
\* as many entries as there are meshes, none missing, added or reordered.
PartsAreTheMeshesInTraversalOrder ==
    Done("collectParts") =>
        /\ Len(parts) = Cardinality(NodesOfType("Mesh"))
        /\ Range(parts) = NodesOfType("Mesh")
        /\ InTraversalOrder(parts)

\* Three meshes, one nested in another, visited in an order that is not the
\* order of their numbers.
NestedMeshesCollected ==
    /\ pc = "ready"
    /\ Len(parts) = 3
    /\ parts[2] > parts[3]
    /\ gltf.parent[parts[2]] = parts[1]

\* ------------------------------------------------------------------------ C2
\* C2: after construction, placeholders holds exactly one placeholder for each
\* node of type "Object3D" of the scene graph whose name is a key of
\* customizationConfig.customization, in traversal order, and none for any
\* other node, wherever the node sits in the graph, below a mesh included.
PlaceholderForEveryConfiguredTransform ==
    Done("addPlaceholders") =>
        LET wanted ==
                SelectSeq(Traverse(InitialChildren(gltf), Root),
                          LAMBDA node :
                              /\ gltf.kind[node].type = "Object3D"
                              /\ gltf.kind[node].name \in DOMAIN Customization)
        IN [i \in 1..Len(placeholders) |-> placeholders[i].key]
                = [i \in 1..Len(wanted) |-> gltf.kind[wanted[i]].name]

\* A node of the loaded scene graph that has a mesh above it.
BelowMesh(node) ==
    \E i \in 1..(Len(PathTo(node)) - 1) : gltf.kind[PathTo(node)[i]].type = "Mesh"

\* What the code does instead: the configured transforms that have no mesh
\* above them get their placeholder; those below a mesh left the scene graph
\* with it when this.add(...this.parts) moved the mesh under the boat.
PlaceholderForEveryConfiguredTransformNotBelowAMesh ==
    Done("addPlaceholders") =>
        LET wanted ==
                SelectSeq(Traverse(InitialChildren(gltf), Root),
                          LAMBDA node :
                              /\ gltf.kind[node].type = "Object3D"
                              /\ gltf.kind[node].name \in DOMAIN Customization
                              /\ ~BelowMesh(node))
        IN [i \in 1..Len(placeholders) |-> placeholders[i].key]
                = [i \in 1..Len(wanted) |-> gltf.kind[wanted[i]].name]

\* ------------------------------------------------------------------------ C3
\* C3: after assembly no two distinct Parts share a material instance: each
\* Part's material was constructed for it in pass 1 and replaces the asset's
\* material, although all Parts bind the same three textures.
PartsOwnDistinctMaterials ==
    Done("collectParts") =>
        /\ \A i, j \in 1..Len(parts) :
                i # j => material[parts[i]] # material[parts[j]]
        /\ \A i \in 1..Len(parts) :
                /\ material[parts[i]] # AssetMaterial
                /\ material[parts[i]] \in 1..Len(materials)
                /\ materials[material[parts[i]]].map = "map"
                /\ materials[material[parts[i]]].roughnessMap
                        = "occlusionRoughnessMetallicMap"
                /\ materials[material[parts[i]]].metalnessMap = "metallnessMapPath"

\* Three parts, two of them of the same name.
SeveralPartsHaveMaterials ==
    /\ pc = "ready"
    /\ Len(parts) = 3
    /\ PartName(1) = PartName(2)

\* ------------------------------------------------------------------------ C4
\* C4: for every mesh and every transparentParts map, the Part's opacity is the
\* map's entry for the node's name if there is one and 1 otherwise, and the
\* material is transparent exactly when that opacity is below 1.
OpacityIsTheEntryOrOne ==
    Done("collectParts") =>
        \A i \in 1..Len(parts) :
            LET m == materials[material[parts[i]]]
            IN /\ m.opacity =
                    IF PartName(i) \in DOMAIN TransparentParts
                    THEN TransparentParts[PartName(i)]
                    ELSE OpacityOne
               /\ m.transparent <=> (m.opacity < OpacityOne)

\* What the code does instead: an entry of 0 is falsy and counts as no entry.
OpacityIsTheNonzeroEntryOrOne ==
    Done("collectParts") =>
        \A i \in 1..Len(parts) :
            LET m == materials[material[parts[i]]]
            IN /\ m.opacity =
                    IF /\ PartName(i) \in DOMAIN TransparentParts
                       /\ TransparentParts[PartName(i)] # 0
                    THEN TransparentParts[PartName(i)]
                    ELSE OpacityOne
               /\ m.transparent <=> (m.opacity < OpacityOne)

\* ------------------------------------------------------------------------ C5
\* C5: when the size of the bounding box, measured before scaling, has a
\* nonzero norm, the boat's uniform scale is 2 / norm(size), that is
\* scale * norm(size) = 2 (squared: scale^2 * norm^2 = 4), and boundingBox
\* contains the bounds each Part has before scaling.
ScaleNormalisesTheDiagonal ==
    (Done("applyScale") /\ HypotSq(size) # 0) =>
        /\ ~scale.inf
        /\ scale.sqNum * HypotSq(size) = 4 * scale.sqDen
        /\ boundingBox.by = IdentityScale
        /\ size = Sub3(boundingBox.max, boundingBox.min)
        /\ \A i \in 1..Len(parts) :
                LET k == gltf.kind[parts[i]]
                    lo == Add3(GeometryBox(k.geometry).min, k.position)
                    hi == Add3(GeometryBox(k.geometry).max, k.position)
                IN /\ ~boundingBox.empty
                   /\ \A c \in 1..3 :
                        boundingBox.min[c] <= lo[c] /\ hi[c] <= boundingBox.max[c]

\* Two parts at different places, one nested in the other, scaled by less
\* than 1.
BoatOfTwoPartsScaled ==
    /\ pc = "ready"
    /\ Len(parts) >= 2
    /\ gltf.kind[parts[1]].position # gltf.kind[parts[2]].position
    /\ gltf.parent[parts[2]] = parts[1]
    /\ HypotSq(size) > 4

\* ------------------------------------------------------------------------ C6
\* C6: one dispose() releases every Part's geometry, every Part's material and
\* every Placeholder, each of them exactly once, and no texture.
DisposeReleasesEachResourceOnce ==
    disposeCalls = 1 =>
        /\ \A i \in 1..Len(parts) :
                /\ Count("geometry", gltf.kind[parts[i]].geometry) = 1
                /\ Count("material", material[parts[i]]) = 1
        /\ \A i \in 1..Len(placeholders) : Count("placeholder", i) = 1
        /\ \A i \in 1..Len(released) : released[i].kind # "texture"

\* What the code does instead: a geometry is released once for each Part that
\* holds it.
DisposeReleasesEachGeometryOncePerPart ==
    disposeCalls = 1 =>
        /\ \A i \in 1..Len(parts) :
                /\ Count("geometry", gltf.kind[parts[i]].geometry) =
                        Cardinality({ j \in 1..Len(parts) :
                                        gltf.kind[parts[j]].geometry
                                            = gltf.kind[parts[i]].geometry })
                /\ Count("material", material[parts[i]]) = 1
        /\ \A i \in 1..Len(placeholders) : Count("placeholder", i) = 1
        /\ \A i \in 1..Len(released) : released[i].kind # "texture"

\* ------------------------------------------------------------------------ C7
\* The option is satisfied by the name: a string by equality, a pattern by a
\* match.
Satisfies(name, option) ==
    \/ option.string /\ option.text = name
    \/ ~option.string /\ Match(name, option)

\* C7: getMatchingParts returns exactly the Parts whose name equals at least
\* one string criterion or matches at least one pattern criterion, in the order
\* of parts, each at most once; no criteria give an empty result; parts itself
\* is unchanged.
MatchingPartsAreThoseSatisfyingSomeOption ==
    result.op = "getMatchingParts" =>
        /\ Range(result.list) =
                { node \in Range(result.before) :
                    \E k \in 1..Len(result.options) :
                        Satisfies(gltf.kind[node].name, result.options[k]) }
        /\ \A i, j \in 1..Len(result.list) :
                i < j =>
                    /\ result.list[i] # result.list[j]
                    /\ \E a, b \in 1..Len(result.before) :
                            /\ a < b
                            /\ result.before[a] = result.list[i]
                            /\ result.before[b] = result.list[j]
        /\ result.options = <<>> => result.list = <<>>
        /\ parts = result.before

\* Two criteria that one part satisfies both, another part only one, and a
\* third part neither.
TwoCriteriaMatched ==
    /\ result.op = "getMatchingParts"
    /\ Len(result.options) = 2
    /\ Len(result.list) = 2
    /\ Len(parts) = 3
    /\ \E node \in Range(parts) :
            \A k \in 1..2 : Satisfies(gltf.kind[node].name, result.options[k])

\* ------------------------------------------------------------------------ C8
\* C8: getPartByName(X) returns the first Part, in the order of parts, whose
\* name is exactly X when there is one, and a not-found result otherwise, also
\* when parts is empty.
PartByNameIsTheFirstOfThatName ==
    result.op = "getPartByName" =>
        LET named == { i \in 1..Len(parts) : PartName(i) = result.name }
        IN /\ result.found <=> named # {}
           /\ result.found =>
                \E i \in named :
                    /\ parts[i] = result.part
                    /\ \A j \in named : i <= j

\* The name asked for is borne by two parts, and another part comes first.
FirstOfTwoNamesakesFound ==
    /\ result.op = "getPartByName"
    /\ result.found
    /\ Len(parts) = 3
    /\ PartName(1) # result.name
    /\ PartName(2) = result.name
    /\ PartName(3) = result.name

\* ------------------------------------------------------------------------ C9
\* C9 as claimed: after assembly the names of the Parts are pairwise distinct,
\* for every scene graph.
PartNamesArePairwiseDistinct ==
    Done("collectParts") =>
        \A i, j \in 1..Len(parts) : i # j => PartName(i) # PartName(j)

\* C9 as amended: parts holds no mesh twice, so two Parts bear the same name
\* only where two mesh nodes of the scene graph do: the names of the Parts are
\* pairwise distinct exactly when the names of the mesh nodes are.
PartNamesAreDistinctWhenMeshNamesAre ==
    Done("collectParts") =>
        /\ \A i, j \in 1..Len(parts) : i # j => parts[i] # parts[j]
        /\ (\A a, b \in NodesOfType("Mesh") :
                a # b => gltf.kind[a].name # gltf.kind[b].name)
            <=> (\A i, j \in 1..Len(parts) : i # j => PartName(i) # PartName(j))

\* Three parts of three different names.
ThreeDistinctlyNamedParts ==
    /\ pc = "ready"
    /\ Len(parts) = 3
    /\ PartName(1) # PartName(2)
    /\ PartName(1) # PartName(3)
    /\ PartName(2) # PartName(3)

\* ----------------------------------------------------------------------- C10
\* The statements of the constructor, in the order claimed.
ConstructorOrder ==
    << "prepareTextures", "collectParts", "computeBounds", "applyScale",
       "addPlaceholders", "createManager" >>

\* C10: construction runs its phases in a fixed order, each once: the texture
\* flags are set before any material is constructed; all Parts are collected
\* and attached to the boat before bounding box, size and center are computed;
\* these are computed before the scale is applied; the placeholder traversal
\* starts only after that; and the CustomizationManager is created only after
\* parts and placeholders are fully populated.
PhasesRunInOrder ==
    /\ Len(log) <= Len(ConstructorOrder)
    /\ log = SubSeq(ConstructorOrder, 1, Len(log))
    /\ materials # <<>> =>
            \A t \in TextureSlots : ~texFlags[t].flipY /\ ~texFlags[t].generateMipmaps
    /\ boundingBox.defined =>
            /\ Range(parts) = NodesOfType("Mesh")
            /\ \A i \in 1..Len(parts) :
                    \E c \in 1..Len(boatChildren) :
                        boatChildren[c] = [kind |-> "part", id |-> parts[i]]
    /\ scale # IdentityScale => boundingBox.defined /\ boundingBox.by = IdentityScale
    /\ Done("applyScale") => boundingBox.defined
    /\ (placeholders # <<>> \/ Done("addPlaceholders")) => Done("applyScale")
    /\ customizationManager.created =>
            /\ Done("addPlaceholders")
            /\ customizationManager.parts = parts
            /\ customizationManager.placeholders = placeholders
            /\ Range(parts) = NodesOfType("Mesh")

\* A boat of parts and placeholders, fully constructed.
ManagerCreatedOverPartsAndPlaceholders ==
    /\ pc = "ready"
    /\ customizationManager.created
    /\ Len(customizationManager.parts) >= 2
    /\ Len(customizationManager.placeholders) >= 1

====
